---- MODULE Spec2Model ----
(***************************************************************************)
(* crazyParser.py: one batch run of main().  The working directory         *)
(* (docRoot) is a map from intermediate-file paths to file contents, a     *)
(* file is a sequence of lines, a line is the sequence of its csv fields   *)
(* plus a flag telling whether the raw line holds NUL bytes.               *)
(***************************************************************************)
EXTENDS Integers, Sequences, FiniteSets, TLC

VARIABLES pc, args, myDomains, knowndom, fs, tempFiles, atexitReg,
          resultsFile, i, domains, uniq, exc, exitCode, envError,
          numResults, mailText, invoked, created, failed

vars == <<pc, args, myDomains, knowndom, fs, tempFiles, atexitReg,
          resultsFile, i, domains, uniq, exc, exitCode, envError,
          numResults, mailText, invoked, created, failed>>

(* ------------------------------ bounds -------------------------------- *)

\* longest mydomains.csv the model runs
MaxDomains == 2

\* longest list handed to dedup in SpecDedup
MaxLen == 5

(* ------------------------------ values -------------------------------- *)

\* Python's None (DictReader's restval for a missing field)
None == "None"

\* the monitored domains mydomains.csv may list
Monitored == {"m1", "m2"}

\* the candidate domain strings the generators may emit
Candidates == {"c1", "c2"}

\* the items of the lists SpecDedup hands to dedup
Items == {"a", "b", "c"}

Line(fields, nul) == [f |-> fields, nul |-> nul]

Path(dom, ext) == [dom |-> dom, ext |-> ext]

\* os.path.join(docRoot, domain.rstrip() + '.uctmp')
ucoutfile(domain) == Path(domain, "uctmp")

\* os.path.join(docRoot, domain.rstrip() + '.dttmp')
dtoutfile(domain) == Path(domain, "dttmp")

NoFile == [exists |-> FALSE, rows |-> <<>>]

Range(s) == {s[k] : k \in 1..Len(s)}

SeqsUpTo(S, n) == UNION {[1..k -> S] : k \in 0..n}

(* ------------------------- generator outputs -------------------------- *)

\* urlcrazy's csv header; the code reads the columns 'Typo' and 'CC-A'
UcHeader == Line(<<"Typo Type", "Typo", "CC-A">>, FALSE)

UcRow(typo, cca, nul) == Line(<<"t", typo, cca>>, nul)

\* what one urlcrazy invocation may leave in its -o file: well-formed rows;
\* a short row, NUL bytes and a blank line; a file without its header line
UcOutputs ==
  { <<UcHeader, UcRow("c1", "US", FALSE), UcRow("c2", "?", FALSE)>>,
    <<UcHeader, Line(<<"t">>, FALSE), UcRow("c2", "US", TRUE), Line(<<>>, FALSE),
      UcRow("c1", "?", TRUE)>>,
    <<UcRow("c2", "US", FALSE), UcRow("c1", "US", FALSE)>> }

DtHeader == Line(<<"Fuzzer", "Domain">>, FALSE)

DtOrig == Line(<<"Original*", "m">>, FALSE)

DtRow(dom, nul) == Line(<<"f", dom>>, nul)

\* what one dnstwist invocation may print on its stdout: well-formed rows;
\* a row with one field only; nothing at all
DtOutputs ==
  { <<DtHeader, DtOrig, DtRow("c2", FALSE), DtRow("c1", FALSE), DtRow("c2", FALSE)>>,
    <<DtHeader, DtOrig, DtRow("c1", FALSE), Line(<<"f">>, FALSE)>>,
    <<>> }

\* every intermediate-file path of the model's working directory
AllPaths == {Path(d, e) : d \in Monitored \cup {"old"}, e \in {"uctmp", "dttmp"}}

File(lines) == [exists |-> TRUE, rows |-> lines]

EmptyDir == [p \in AllPaths |-> NoFile]

\* the working directories a run may start in: clean, or holding a file a
\* prior run left behind
StaleDirs ==
  { EmptyDir,
    [EmptyDir EXCEPT ![ucoutfile("m1")] = File(<<UcHeader, UcRow("c2", "US", FALSE)>>)],
    [EmptyDir EXCEPT ![dtoutfile("old")] = File(<<DtHeader, DtOrig, DtRow("c1", TRUE)>>)] }

\* os.listdir(docRoot) filtered by f.endswith(ext)
Listed(files, ext) == {p \in AllPaths : files[p].exists /\ p.ext = ext}

\* every order os.listdir may return the paths of S in
Orders(S) == {o \in [1..Cardinality(S) -> S] : Range(o) = S}

(* ------------------------------- dedup -------------------------------- *)

RECURSIVE dedupLoop(_, _, _)
dedupLoop(domainslist, seen, result) ==
  IF domainslist = <<>> THEN result
  ELSE LET item == Head(domainslist) IN
       IF item \in seen
       THEN dedupLoop(Tail(domainslist), seen, result)
       ELSE dedupLoop(Tail(domainslist), seen \cup {item}, Append(result, item))

RECURSIVE dedupAdjacent(_)
dedupAdjacent(domainslist) ==
  IF Len(domainslist) <= 1 THEN domainslist
  ELSE LET rest == dedupAdjacent(Tail(domainslist)) IN
       IF Head(domainslist) = Head(Tail(domainslist)) THEN rest
       ELSE <<Head(domainslist)>> \o rest

\* mutant: an item is only compared with the one before it
dedupPrevOnly(domainslist) == dedupAdjacent(domainslist)

dedup(domainslist) == dedupLoop(domainslist, {}, <<>>)

(* --------------------------- csv reading ------------------------------ *)

\* row.replace('\0', '')
StripNul(line) == [line EXCEPT !.nul = FALSE]

\* the position of key among the DictReader's fieldnames, 0 if it has none
IndexOf(fieldnames, key) ==
  IF key \in Range(fieldnames)
  THEN CHOOSE k \in 1..Len(fieldnames) :
         fieldnames[k] = key /\ \A j \in 1..(k - 1) : fieldnames[j] # key
  ELSE 0

\* row[key] of a DictReader row: the field under key's column, None
\* (restval) when the row is too short; "KeyError" when there is no column
DictGet(fieldnames, fields, key) ==
  LET k == IndexOf(fieldnames, key) IN
  IF k = 0 THEN "KeyError"
  ELSE IF k <= Len(fields) THEN fields[k] ELSE None

Ok(out) == [exc |-> "none", out |-> out]

Raise(e) == [exc |-> e, out |-> <<>>]

RECURSIVE UcRowsNoRisk(_, _, _, _)
UcRowsNoRisk(fieldnames, lines, known, acc) ==
  IF lines = <<>> THEN Ok(acc)
  ELSE LET fields == Head(lines).f IN
       IF Head(lines).nul THEN Raise("csv.Error")
       ELSE IF fields = <<>> THEN UcRowsNoRisk(fieldnames, Tail(lines), known, acc)
       ELSE LET typo == DictGet(fieldnames, fields, "Typo") IN
            IF typo = "KeyError" THEN Raise("KeyError")
            ELSE IF typo \in known
                 THEN UcRowsNoRisk(fieldnames, Tail(lines), known, acc)
                 ELSE UcRowsNoRisk(fieldnames, Tail(lines), known, Append(acc, typo))

RECURSIVE UcRows(_, _, _, _)
\* the loop over a urlcrazy file's DictReader rows
UcRows(fieldnames, lines, known, acc) ==
  IF lines = <<>> THEN Ok(acc)
  ELSE LET fields == Head(lines).f IN
       IF Head(lines).nul THEN Raise("csv.Error")
       ELSE IF fields = <<>> THEN UcRows(fieldnames, Tail(lines), known, acc)
       ELSE LET cca == DictGet(fieldnames, fields, "CC-A") IN
            IF cca = "KeyError" THEN Raise("KeyError")
            ELSE IF cca # "?"
                 THEN LET typo == DictGet(fieldnames, fields, "Typo") IN
                      IF typo = "KeyError" THEN Raise("KeyError")
                      ELSE IF typo \in known
                           THEN UcRows(fieldnames, Tail(lines), known, acc)
                           ELSE UcRows(fieldnames, Tail(lines), known, Append(acc, typo))
                 ELSE UcRows(fieldnames, Tail(lines), known, acc)

\* mutant: rows whose CC-A is "?" are kept
ParseUcFileNoRisk(lines, known, acc) ==
  LET clean == [k \in 1..Len(lines) |-> StripNul(lines[k])] IN
  IF clean = <<>> THEN Ok(acc)
  ELSE UcRowsNoRisk(Head(clean).f, Tail(clean), known, acc)

\* one .uctmp file: every raw line stripped of NUL, the first line the
\* fieldnames, the candidates appended to acc
ParseUcFile(lines, known, acc) ==
  LET clean == [k \in 1..Len(lines) |-> StripNul(lines[k])] IN
  IF clean = <<>> THEN Ok(acc)
  ELSE UcRows(Head(clean).f, Tail(clean), known, acc)

RECURSIVE DtRowsNoLedger(_, _, _)
DtRowsNoLedger(lines, known, acc) ==
  IF lines = <<>> THEN Ok(acc)
  ELSE IF Head(lines).nul THEN Raise("csv.Error")
  ELSE IF Len(Head(lines).f) < 2 THEN Raise("IndexError")
  ELSE DtRowsNoLedger(Tail(lines), known, Append(acc, Head(lines).f[2]))

RECURSIVE DtRows(_, _, _)
\* the loop over a dnstwist file's data rows
DtRows(lines, known, acc) ==
  IF lines = <<>> THEN Ok(acc)
  ELSE IF Head(lines).nul THEN Raise("csv.Error")
  ELSE IF Len(Head(lines).f) < 2 THEN Raise("IndexError")
  ELSE IF Head(lines).f[2] \in known
       THEN DtRows(Tail(lines), known, acc)
       ELSE DtRows(Tail(lines), known, Append(acc, Head(lines).f[2]))

\* mutant: dnstwist rows are not compared with the ledger
ParseDtFileNoLedger(lines, known, acc) ==
  IF Len(lines) < 2 THEN Raise("StopIteration")
  ELSE IF lines[1].nul \/ lines[2].nul THEN Raise("csv.Error")
  ELSE DtRowsNoLedger(Tail(Tail(lines)), known, acc)

\* one .dttmp file: next(reader) twice, then the data rows
ParseDtFile(lines, known, acc) ==
  IF Len(lines) < 2 THEN Raise("StopIteration")
  ELSE IF lines[1].nul \/ lines[2].nul THEN Raise("csv.Error")
  ELSE DtRows(Tail(Tail(lines)), known, acc)

RECURSIVE ParseUcFiles(_, _, _, _)
ParseUcFiles(files, order, known, acc) ==
  IF order = <<>> THEN Ok(acc)
  ELSE LET r == ParseUcFile(files[Head(order)].rows, known, acc) IN
       IF r.exc # "none" THEN r
       ELSE ParseUcFiles(files, Tail(order), known, r.out)

RECURSIVE ParseDtFiles(_, _, _, _)
ParseDtFiles(files, order, known, acc) ==
  IF order = <<>> THEN Ok(acc)
  ELSE LET r == ParseDtFile(files[Head(order)].rows, known, acc) IN
       IF r.exc # "none" THEN r
       ELSE ParseDtFiles(files, Tail(order), known, r.out)

\* the value of the local 'domains' at line 184, or the exception raised
\* on the way there
ParseAll(files, ucOrder, dtOrder, known, urlcrazy, dnstwist) ==
  LET u == IF urlcrazy THEN ParseUcFiles(files, ucOrder, known, <<>>) ELSE Ok(<<>>) IN
  IF u.exc # "none" THEN u
  ELSE IF dnstwist THEN ParseDtFiles(files, dtOrder, known, u.out) ELSE u

(* --------------------------- result writer ---------------------------- *)

\* csv's rendering of one field: None is written as the empty string
CsvField(v) == IF v = None THEN "" ELSE v

\* mutant: writeheader() is missing
WriteResultsNoHeader(rows) == [k \in 1..Len(rows) |-> CsvField(rows[k])]

\* the lines of resultsFile after lines 190-196
WriteResults(rows) == <<"Domain">> \o [k \in 1..Len(rows) |-> CsvField(rows[k])]

(* ------------------------------ cleanup ------------------------------- *)

RECURSIVE RemoveUntilError(_, _)
RemoveUntilError(files, registry) ==
  IF registry = <<>> THEN files
  ELSE IF files[Head(registry)].exists
       THEN RemoveUntilError([files EXCEPT ![Head(registry)] = NoFile], Tail(registry))
       ELSE files

RECURSIVE RemoveEach(_, _)
\* for f in tempFiles: os.remove(f), an OSError (no such file) caught
RemoveEach(files, registry) ==
  IF registry = <<>> THEN files
  ELSE IF files[Head(registry)].exists
       THEN RemoveEach([files EXCEPT ![Head(registry)] = NoFile], Tail(registry))
       ELSE RemoveEach(files, Tail(registry))

\* mutant: the OSError of os.remove is not caught, the loop ends there
doCleanupUncaught(files, registry) == RemoveUntilError(files, registry)

\* the directory after doCleanup(docRoot): filedict is built and never
\* read, the registered paths are removed
doCleanup(files, registry) == RemoveEach(files, registry)

(* ------------------------------- state -------------------------------- *)

ParseErrors == {"KeyError", "IndexError", "StopIteration", "csv.Error"}

Init ==
  /\ pc = "main"
  /\ args \in [urlcrazy : BOOLEAN, dnstwist : BOOLEAN]
  /\ myDomains \in SeqsUpTo(Monitored, MaxDomains)
  /\ knowndom \in SUBSET Candidates
  /\ fs \in StaleDirs
  /\ resultsFile \in {NoFile, File(<<"Domain", "c1">>)}
  /\ tempFiles = <<>>
  /\ atexitReg = FALSE
  /\ i = 0
  /\ domains = <<>>
  /\ uniq = <<>>
  /\ exc = "none"
  /\ exitCode = -1
  /\ envError = FALSE
  /\ numResults = 0
  /\ mailText = "none"
  /\ invoked = 0
  /\ created = {}
  /\ failed = FALSE

\* the interpreter leaves main: by sys.exit(code), or by an uncaught exception
Leave(e, code) ==
  /\ pc' = "atexit"
  /\ exc' = e
  /\ exitCode' = code

\* sys.exit(): SystemExit with no argument, exit status 0
SysExit == Leave("SystemExit", 0)

\* main, lines 311-334: no argument at all prints the help and exits 1;
\* a --config or --directory that is no directory exits by sys.exit()
ParseArgs ==
  /\ pc = "main"
  /\ \/ /\ ~args.urlcrazy /\ ~args.dnstwist
        /\ Leave("SystemExit", 1)
        /\ UNCHANGED envError
     \/ /\ \E missing \in {"config", "directory"} : SysExit
        /\ envError' = TRUE
     \/ /\ pc' = "checkPerms"
        /\ UNCHANGED <<exc, exitCode, envError>>
  /\ UNCHANGED <<args, myDomains, knowndom, fs, tempFiles, atexitReg, resultsFile,
                 i, domains, uniq, numResults, mailText, invoked, created,
                 failed>>

\* checkPerms: docRoot not accessible, or not writable, exits by sys.exit()
CheckPerms ==
  /\ pc = "checkPerms"
  /\ \/ /\ \E problem \in {"noaccess", "nowrite"} : SysExit
        /\ envError' = TRUE
     \/ /\ pc' = "checkDepends"
        /\ UNCHANGED <<exc, exitCode, envError>>
  /\ UNCHANGED <<args, myDomains, knowndom, fs, tempFiles, atexitReg, resultsFile,
                 i, domains, uniq, numResults, mailText, invoked, created,
                 failed>>

\* checkDepends: a missing mydomains.csv or knowndomains.csv, or a missing
\* binary of an enabled generator, exits by sys.exit()
CheckDepends ==
  /\ pc = "checkDepends"
  /\ \/ /\ SysExit
        /\ envError' = TRUE
     \/ /\ args.urlcrazy
        /\ SysExit
        /\ envError' = TRUE
     \/ /\ args.dnstwist
        /\ SysExit
        /\ envError' = TRUE
     \/ /\ pc' = "cleanup"
        /\ UNCHANGED <<exc, exitCode, envError>>
  /\ UNCHANGED <<args, myDomains, knowndom, fs, tempFiles, atexitReg, resultsFile,
                 i, domains, uniq, numResults, mailText, invoked, created,
                 failed>>

\* main, line 348: doCleanup(docRoot) before the run
StartupCleanup ==
  /\ pc = "cleanup"
  /\ fs' = doCleanup(fs, tempFiles)
  /\ pc' = "register"
  /\ UNCHANGED <<args, myDomains, knowndom, tempFiles, atexitReg, resultsFile,
                 i, domains, uniq, exc, exitCode, envError, numResults, mailText,
                 invoked, created, failed>>

\* main, line 351: atexit.register(doCleanup, docRoot)
AtexitRegister ==
  /\ pc = "register"
  /\ atexitReg' = TRUE
  /\ pc' = "doCrazy"
  /\ UNCHANGED <<args, myDomains, knowndom, fs, tempFiles, resultsFile,
                 i, domains, uniq, exc, exitCode, envError, numResults, mailText,
                 invoked, created, failed>>

\* where doCrazy's loop goes after the domain at position k
AfterDomain(k) == IF k < Len(myDomains) THEN "urlcrazy" ELSE "parseOutput"

\* doCrazy, lines 96-104: the old results file is removed, the loop starts
DoCrazyBegin ==
  /\ pc = "doCrazy"
  /\ resultsFile' = NoFile
  /\ i' = 1
  /\ pc' = AfterDomain(0)
  /\ UNCHANGED <<args, myDomains, knowndom, fs, tempFiles, atexitReg,
                 domains, uniq, exc, exitCode, envError, numResults, mailText,
                 invoked, created, failed>>

\* doCrazy, lines 109-120, for myDomains[i]: subprocess.call either raises
\* (nothing written, nothing registered) or returns, whatever the exit
\* status, urlcrazy having written its -o file or not; the path is then
\* registered
Urlcrazy ==
  /\ pc = "urlcrazy"
  /\ LET out == ucoutfile(myDomains[i]) IN
     \/ /\ ~args.urlcrazy
        /\ UNCHANGED <<fs, tempFiles, invoked, created, failed>>
     \/ /\ args.urlcrazy
        /\ invoked' = invoked + 1
        /\ failed' = TRUE
        /\ UNCHANGED <<fs, tempFiles, created>>
     \/ /\ args.urlcrazy
        /\ invoked' = invoked + 1
        /\ tempFiles' = Append(tempFiles, out)
        /\ failed' = TRUE
        /\ UNCHANGED <<fs, created>>
     \/ /\ args.urlcrazy
        /\ invoked' = invoked + 1
        /\ tempFiles' = Append(tempFiles, out)
        /\ \E written \in UcOutputs :
             /\ fs' = [fs EXCEPT ![out] = File(written)]
             /\ failed' = (failed \/ written = <<>>)
        /\ created' = created \cup {out}
  /\ pc' = "dnstwist"
  /\ UNCHANGED <<args, myDomains, knowndom, atexitReg, resultsFile, i, domains,
                 uniq, exc, exitCode, envError, numResults, mailText>>

\* doCrazy, lines 122-134, for myDomains[i]: open(dtoutfile, 'wb') creates
\* or truncates the file; check_output either raises (nonzero exit, no
\* binary), leaving the file empty and unregistered, or returns the output,
\* which is written and the path registered
Dnstwist ==
  /\ pc = "dnstwist"
  /\ LET out == dtoutfile(myDomains[i]) IN
     \/ /\ ~args.dnstwist
        /\ UNCHANGED <<fs, tempFiles, invoked, created, failed>>
     \/ /\ args.dnstwist
        /\ invoked' = invoked + 1
        /\ fs' = [fs EXCEPT ![out] = File(<<>>)]
        /\ created' = created \cup {out}
        /\ failed' = TRUE
        /\ UNCHANGED tempFiles
     \/ /\ args.dnstwist
        /\ invoked' = invoked + 1
        /\ \E output \in DtOutputs :
             /\ fs' = [fs EXCEPT ![out] = File(output)]
             /\ failed' = (failed \/ output = <<>>)
        /\ created' = created \cup {out}
        /\ tempFiles' = Append(tempFiles, out)
  /\ pc' = AfterDomain(i)
  /\ i' = i + 1
  /\ UNCHANGED <<args, myDomains, knowndom, atexitReg, resultsFile, domains,
                 uniq, exc, exitCode, envError, numResults, mailText>>

\* parseOutput: the ledger is knowndom; every .uctmp and every .dttmp of
\* docRoot is read, in the order os.listdir gives; an exception of the
\* readers is not caught and ends the run; otherwise the list is deduped
\* and the results file written
ParseOutput ==
  /\ pc = "parseOutput"
  /\ \E ucOrder \in Orders(Listed(fs, "uctmp")), dtOrder \in Orders(Listed(fs, "dttmp")) :
       LET r == ParseAll(fs, ucOrder, dtOrder, knowndom, args.urlcrazy, args.dnstwist) IN
       \/ /\ r.exc # "none"
          /\ Leave(r.exc, 1)
          /\ UNCHANGED <<domains, uniq, resultsFile>>
       \/ /\ r.exc = "none"
          /\ domains' = r.out
          /\ uniq' = dedup(r.out)
          /\ resultsFile' = File(WriteResults(dedup(r.out)))
          /\ pc' = "sendMail"
          /\ UNCHANGED <<exc, exitCode>>
  /\ UNCHANGED <<args, myDomains, knowndom, fs, tempFiles, atexitReg, i, envError,
                 numResults, mailText, invoked, created, failed>>

\* sum(1 for line in open(attachment))
CountLines(file) == Len(file.rows)

MailText(n) == IF n = 1 THEN "There were no new results in today's scan"
               ELSE "The results from today's DNS typosquatting scan are attached"

\* main, lines 360-363, and sendMail.  args.email is read here and nowhere
\* else, so the flag is drawn here: without --email main returns; with it
\* the rows of the results file are counted, the message chosen, and the
\* mail sent, or smtplib raises
SendMail ==
  /\ pc = "sendMail"
  /\ \/ /\ Leave("none", 0)
        /\ UNCHANGED <<numResults, mailText>>
     \/ /\ numResults' = CountLines(resultsFile)
        /\ mailText' = MailText(CountLines(resultsFile))
        /\ \/ Leave("none", 0)
           \/ Leave("SMTPException", 1)
  /\ UNCHANGED <<args, myDomains, knowndom, fs, tempFiles, atexitReg, resultsFile,
                 i, domains, uniq, envError, invoked, created, failed>>

\* interpreter exit: the atexit handler, if registered, runs doCleanup
AtExit ==
  /\ pc = "atexit"
  /\ fs' = IF atexitReg THEN doCleanup(fs, tempFiles) ELSE fs
  /\ pc' = "exited"
  /\ UNCHANGED <<args, myDomains, knowndom, tempFiles, atexitReg, resultsFile,
                 i, domains, uniq, exc, exitCode, envError, numResults, mailText,
                 invoked, created, failed>>

Next ==
  \/ ParseArgs
  \/ CheckPerms
  \/ CheckDepends
  \/ StartupCleanup
  \/ AtexitRegister
  \/ DoCrazyBegin
  \/ Urlcrazy
  \/ Dnstwist
  \/ ParseOutput
  \/ SendMail
  \/ AtExit

Spec == Init /\ [][Next]_vars

(* ------------------- dedup and the writer on their own ----------------- *)

\* parseOutput at line 186, the list 'domains' being any list of at most
\* MaxLen items
InitDedup ==
  /\ pc = "dedup"
  /\ domains \in SeqsUpTo(Items, MaxLen)
  /\ args = [urlcrazy |-> FALSE, dnstwist |-> FALSE]
  /\ myDomains = <<>>
  /\ knowndom = {}
  /\ fs = EmptyDir
  /\ resultsFile = NoFile
  /\ tempFiles = <<>>
  /\ atexitReg = TRUE
  /\ i = 1
  /\ uniq = <<>>
  /\ exc = "none"
  /\ exitCode = -1
  /\ envError = FALSE
  /\ numResults = 0
  /\ mailText = "none"
  /\ invoked = 0
  /\ created = {}
  /\ failed = FALSE

\* parseOutput, lines 186-196: domains = dedup(domains), then the writer
DedupAndWrite ==
  /\ pc = "dedup"
  /\ uniq' = dedup(domains)
  /\ resultsFile' = File(WriteResults(dedup(domains)))
  /\ pc' = "deduped"
  /\ UNCHANGED <<args, myDomains, knowndom, fs, tempFiles, atexitReg, i, domains,
                 exc, exitCode, envError, numResults, mailText, invoked, created,
                 failed>>

NextDedup == DedupAndWrite

SpecDedup == InitDedup /\ [][NextDedup]_vars

(* ------------------------------ properties ---------------------------- *)

\* the results file on disk was written by this run: doCrazy removed any
\* older one when it began
ArtifactWritten == i > 0 /\ resultsFile.exists

\* parseOutput has returned and nothing has touched the directory since
ParseReturned == pc = "sendMail"

\* parseOutput ended in an exception of one of its readers
ParseRaised == pc \in {"atexit", "exited"} /\ exc \in ParseErrors

\* the files of docRoot parseOutput reads
FilesRead ==
  (IF args.urlcrazy THEN Listed(fs, "uctmp") ELSE {})
    \cup (IF args.dnstwist THEN Listed(fs, "dttmp") ELSE {})

\* file p holds, after its header lines, a row that reports domain d and,
\* in a urlcrazy file, does not carry "?" in its CC-A column
Reports(p, d) ==
  LET rows == fs[p].rows IN
  IF p.ext = "uctmp"
  THEN \E k \in 2..Len(rows) :
         /\ Len(rows[k].f) >= 2
         /\ rows[k].f[2] = d
         /\ ~(Len(rows[k].f) >= 3 /\ rows[k].f[3] = "?")
  ELSE \E k \in 3..Len(rows) : Len(rows[k].f) >= 2 /\ rows[k].f[2] = d

\* urlcrazy file p holds a row that reports d with "?" in its CC-A column
ReportsNoRisk(p, d) ==
  /\ p.ext = "uctmp"
  /\ \E k \in 2..Len(fs[p].rows) :
       LET f == fs[p].rows[k].f IN Len(f) >= 3 /\ f[2] = d /\ f[3] = "?"

\* the reader of file p raises nothing when p is read on its own
ReaderAccepts(p) ==
  IF p.ext = "uctmp" THEN ParseUcFile(fs[p].rows, {}, <<>>).exc = "none"
  ELSE ParseDtFile(fs[p].rows, {}, <<>>).exc = "none"

\* the position of the first occurrence of x in s
FirstAt(s, x) == CHOOSE k \in 1..Len(s) : s[k] = x /\ \A j \in 1..(k - 1) : s[j] # x

Occurrences(s, x) == Cardinality({k \in 1..Len(s) : s[k] = x})

\* C1: once parseOutput has written the results file, no row of it is a
\* domain of the ledger, whichever generator reported the domain.
C1_NoLedgerDomainInResults ==
  ArtifactWritten =>
    \A k \in 1..Len(resultsFile.rows) : resultsFile.rows[k] \notin knowndom

\* a run in which a ledger domain was reported both by a urlcrazy row and by
\* a dnstwist row, and the results file was written with some new domain
C1_Witness ==
  /\ ParseReturned
  /\ ArtifactWritten
  /\ Len(resultsFile.rows) > 1
  /\ \E d \in knowndom :
       /\ \E p \in FilesRead : p.ext = "uctmp" /\ Reports(p, d)
       /\ \E p \in FilesRead : p.ext = "dttmp" /\ Reports(p, d)

\* C2: when some generator invocation failed while a registered file of
\* this run reports a new domain d (every registered file being one its
\* reader accepts), parseOutput completes, the results file is written, and
\* d is a row of it.
C2_FailureDoesNotHideOthers ==
  \A d \in Candidates \ knowndom :
    (/\ ParseReturned \/ ParseRaised
     /\ pc # "exited"
     /\ failed
     /\ FilesRead \subseteq created
     /\ \A p \in FilesRead \cap Range(tempFiles) : ReaderAccepts(p)
     /\ \E p \in FilesRead : p \in Range(tempFiles) /\ Reports(p, d))
    => (ArtifactWritten /\ d \in Range(resultsFile.rows))

\* C3: dedup keeps every value of its input exactly once, in the order of
\* the first occurrences, and so does the results file written from it.
C3_DedupFirstSeenOnce ==
  pc = "deduped" =>
    /\ Range(uniq) = Range(domains)
    /\ \A x \in Range(domains) : Occurrences(uniq, x) = 1
    /\ \A j, k \in 1..Len(uniq) :
         j < k => FirstAt(domains, uniq[j]) < FirstAt(domains, uniq[k])
    /\ \A x \in Range(domains) : Occurrences(resultsFile.rows, x) = 1

\* the spec's example: [a, b, a, c, b] has been deduped to [a, b, c]
C3_Witness ==
  /\ pc = "deduped"
  /\ domains = <<"a", "b", "a", "c", "b">>
  /\ uniq = <<"a", "b", "c">>

\* C4: the results file is the header row 'Domain' followed by one row per
\* deduplicated candidate, in order; the row count sendMail computes is 1
\* exactly when there is no candidate, and so is the 'no new results' text.
C4_HeaderPlusOneRowEach ==
  ArtifactWritten =>
    /\ Len(resultsFile.rows) = Len(uniq) + 1
    /\ resultsFile.rows[1] = "Domain"
    /\ \A k \in 1..Len(uniq) :
         resultsFile.rows[k + 1] = (IF uniq[k] = None THEN "" ELSE uniq[k])
    /\ numResults # 0 =>
         /\ numResults = Len(uniq) + 1
         /\ (numResults = 1) <=> (uniq = <<>>)
         /\ (mailText = "There were no new results in today's scan") <=> (uniq = <<>>)

\* sendMail has counted a results file of a header and two new domains
C4_Witness ==
  /\ ArtifactWritten
  /\ numResults = 3
  /\ Len(uniq) = 2
  /\ mailText = "The results from today's DNS typosquatting scan are attached"

\* C5: once the interpreter has exited, on whatever path, no registered
\* path exists, also when a registered path was missing or registered twice.
C5_RegisteredFilesRemoved ==
  pc = "exited" => \A p \in Range(tempFiles) : ~fs[p].exists

\* the run ended in an uncaught exception with a path registered twice (its
\* second removal finds the file missing) and a file of this run registered
\* after it
C5_Witness ==
  /\ pc = "exited"
  /\ exc # "none"
  /\ \E j, k, m \in 1..Len(tempFiles) :
       /\ j < k /\ k < m
       /\ tempFiles[j] = tempFiles[k]
       /\ tempFiles[m] \in created

\* C6: after the startup cleanup no .uctmp or .dttmp file is left in
\* docRoot, and parseOutput reads only files this run produced.
C6_StartupCleanupRemovesStale ==
  /\ pc = "register" => Listed(fs, "uctmp") \cup Listed(fs, "dttmp") = {}
  /\ pc = "parseOutput" => FilesRead \subseteq created

\* C7: parseOutput is not aborted by a malformed row or a missing header
\* line in a file of this run: when every invocation succeeded and
\* parseOutput has run, the results file is written.
C7_MalformedRowNotFatal ==
  (/\ ParseReturned \/ ParseRaised
   /\ ~failed
   /\ FilesRead \subseteq created)
  => (exc \notin ParseErrors /\ ArtifactWritten)

\* C8: a domain of the results file is reported by some row that parseOutput
\* read and that does not carry urlcrazy's "?" marker: a row with the marker
\* never brings its domain into the results.
C8_NoRiskRowsExcluded ==
  ParseReturned =>
    \A d \in Candidates :
      d \in Range(resultsFile.rows) => \E p \in FilesRead : Reports(p, d)

\* a new domain reported only by a urlcrazy row with the "?" marker is
\* absent from the results file that was written
C8_Witness ==
  /\ ParseReturned
  /\ ArtifactWritten
  /\ \E d \in Candidates \ knowndom :
       /\ \E p \in FilesRead : ReportsNoRisk(p, d)
       /\ d \notin Range(resultsFile.rows)

\* C9: every intermediate file this run has created is registered, and none
\* of them exists once the interpreter has exited.
C9_EveryCreatedFileTracked ==
  /\ created \subseteq Range(tempFiles)
  /\ pc = "exited" => \A p \in created : ~fs[p].exists

\* C10: a run ended by an environment error has a nonzero exit status and
\* has invoked no generator.
C10_EnvErrorExitsNonzero ==
  (pc = "exited" /\ envError) => (exitCode # 0 /\ invoked = 0)

====
